---- MODULE Spec2Model ----
(***************************************************************************)
(* browserslist-useragent (src/index.ts): does a user-agent string match a *)
(* browserslist query result?                                              *)
(*                                                                         *)
(* Strings are sequences of one-character strings, so that splitting,      *)
(* searching, lower-casing, version coercion and version formatting are    *)
(* computed character by character as the code computes them.  null and    *)
(* undefined are the one-element sequences Null and Undefined, whose       *)
(* element is not a character.                                             *)
(***************************************************************************)
EXTENDS Integers, Sequences, FiniteSets, TLC

VARIABLES
    fn,               \* the function being called
    args,             \* its arguments
    ret,              \* its return value (NotReturned before the call returns)
    pc,               \* "idle" | "call" | "loop" | "done" | "diverges"
    startSemver,      \* generateSemversInRange: locals of the loop
    endSemver,
    curVersion,
    versionsInRange

vars == <<fn, args, ret, pc, startSemver, endSemver, curVersion, versionsInRange>>

\* ------------------------------------------------------------------ bounds

\* version components of the input tokens range over 0..MaxComp
MaxComp == 2
\* a query passed to normalizeQuery is a concatenation of at most MaxPieces pieces
MaxPieces == 3
\* a browserslist result holds at most MaxList entries
MaxList == 2
\* the minor component past which the range loop counts as running forever
MaxMinor == 3

\* ------------------------------------------------------------ JS values

Null == <<"null">>
Undefined == <<"undefined">>
\* the return slot: empty, or holding the returned value
NotReturned == [returned |-> FALSE]
Returned(value) == [returned |-> TRUE, value |-> value]

\* !value for a string | null | undefined
Falsy(s) == s = Null \/ s = Undefined \/ s = <<>>

\* ------------------------------------------------------- string helpers

Digits == <<"0", "1", "2", "3", "4", "5", "6", "7", "8", "9">>

IsDigit(c) == \E i \in 1..10 : Digits[i] = c

DigitVal(c) == (CHOOSE i \in 1..10 : Digits[i] = c) - 1

\* String(n) for a non-negative integer
RECURSIVE Dec(_)
Dec(n) == IF n < 10 THEN <<Digits[n + 1]>>
          ELSE Dec(n \div 10) \o <<Digits[(n % 10) + 1]>>

\* the number written by the digits s[i..j]
RECURSIVE NumAt(_, _, _)
NumAt(s, i, j) == IF j < i THEN 0
                  ELSE 10 * NumAt(s, i, j - 1) + DigitVal(s[j])

\* last index of the digit run that starts at i
RECURSIVE RunEnd(_, _)
RunEnd(s, i) == IF i < Len(s) /\ IsDigit(s[i + 1]) THEN RunEnd(s, i + 1) ELSE i

\* does t occur in s at index i (1-based)
OccursAt(s, t, i) ==
    /\ i >= 1
    /\ i + Len(t) - 1 <= Len(s)
    /\ \A k \in 1..Len(t) : s[i + k - 1] = t[k]

\* String.prototype.indexOf, 1-based; 0 when absent
IndexOf(s, t) ==
    IF \E i \in 1..(Len(s) + 1) : OccursAt(s, t, i)
    THEN CHOOSE i \in 1..(Len(s) + 1) :
            /\ OccursAt(s, t, i)
            /\ \A j \in 1..(i - 1) : ~OccursAt(s, t, j)
    ELSE 0

\* String.prototype.split(sep) for a one-character separator
RECURSIVE Split(_, _)
Split(s, sep) ==
    LET i == IndexOf(s, <<sep>>)
    IN  IF i = 0 THEN <<s>>
        ELSE <<SubSeq(s, 1, i - 1)>> \o Split(SubSeq(s, i + 1, Len(s)), sep)

\* array destructuring: element i, or undefined past the end
Nth(parts, i) == IF i <= Len(parts) THEN parts[i] ELSE Undefined

UpperCase == <<"A", "B", "C", "D", "E", "F", "G", "H", "I", "J", "K", "L", "M",
               "N", "O", "P", "Q", "R", "S", "T", "U", "V", "W", "X", "Y", "Z">>
LowerCase == <<"a", "b", "c", "d", "e", "f", "g", "h", "i", "j", "k", "l", "m",
               "n", "o", "p", "q", "r", "s", "t", "u", "v", "w", "x", "y", "z">>

\* String.prototype.toLowerCase, on the letters A-Z
ToLowerCase(s) ==
    [k \in 1..Len(s) |->
        IF \E i \in 1..26 : UpperCase[i] = s[k]
        THEN LowerCase[CHOOSE i \in 1..26 : UpperCase[i] = s[k]]
        ELSE s[k]]

\* -------------------------------------------------- the semver library

\* a parsed version is <<major, minor, patch>>; NoVersion when there is none
NoVersion == <<>>

\* is s[j + 1] a "." followed by a digit
DotDigit(s, j) == j + 2 <= Len(s) /\ s[j + 1] = "." /\ IsDigit(s[j + 2])

\* the minor run is s[i2..j2]; the patch is the run after the next ".", if any
CoerceMinor(s, major, i2, j2) ==
    << major,
       NumAt(s, i2, j2),
       IF DotDigit(s, j2) THEN NumAt(s, j2 + 2, RunEnd(s, j2 + 2)) ELSE 0 >>

\* the major run is s[i1..j1]; the minor is the run after the next ".", if any
CoerceMajor(s, i1, j1) ==
    IF DotDigit(s, j1)
    THEN CoerceMinor(s, NumAt(s, i1, j1), j1 + 2, RunEnd(s, j1 + 2))
    ELSE <<NumAt(s, i1, j1), 0, 0>>

\* semver.coerce(version, {loose: true}): the leftmost digit run is the major,
\* then ".digits" twice, each optional; missing components are 0.
\* (Digit runs of the inputs are shorter than the library's 16-digit limit.)
Coerce(s) ==
    IF \A i \in 1..Len(s) : ~IsDigit(s[i]) THEN NoVersion
    ELSE LET i1 == CHOOSE i \in 1..Len(s) :
                      IsDigit(s[i]) /\ \A j \in 1..(i - 1) : ~IsDigit(s[j])
         IN  CoerceMajor(s, i1, RunEnd(s, i1))

\* SemVer.version: "major.minor.patch"
Format(v) == Dec(v[1]) \o <<".">> \o Dec(v[2]) \o <<".">> \o Dec(v[3])

\* v if s is the canonical text of v
Canonically(s, v) == IF v # NoVersion /\ Format(v) = s THEN v ELSE NoVersion

\* new SemVer(string): a canonical "major.minor.patch", or NoVersion
SemVer(s) == Canonically(s, Coerce(s))

\* SemVer.compare: -1, 0, 1
CompareSemVer(a, b) ==
    IF a[1] # b[1] THEN (IF a[1] < b[1] THEN -1 ELSE 1)
    ELSE IF a[2] # b[2] THEN (IF a[2] < b[2] THEN -1 ELSE 1)
    ELSE IF a[3] # b[3] THEN (IF a[3] < b[3] THEN -1 ELSE 1)
    ELSE 0

\* semver.gte(a, b) on version strings
SemverGte(a, b) == CompareSemVer(SemVer(a), SemVer(b)) >= 0

\* minor + 1, patch 0
IncMinor(p) == Format(<<p[1], p[2] + 1, 0>>)

\* semver.inc(v, 'minor')
SemverIncMinor(v) == IncMinor(SemVer(v))

\* v is in [r, upper)
InHalfOpen(v, r, upper) == CompareSemVer(v, r) >= 0 /\ CompareSemVer(v, upper) < 0

\* "~x.y.z" := >=x.y.z <x.(y+1).0
SatisfiesTilde(v, r) ==
    v # NoVersion /\ r # NoVersion /\ InHalfOpen(v, r, <<r[1], r[2] + 1, 0>>)

\* "^x.y.z" := >=x.y.z <(x+1).0.0, or <0.(y+1).0 when x = 0,
\*             or <0.0.(z+1) when x = y = 0
SatisfiesCaret(v, r) ==
    /\ v # NoVersion /\ r # NoVersion
    /\ InHalfOpen(v, r, IF r[1] > 0 THEN <<r[1] + 1, 0, 0>>
                        ELSE IF r[2] > 0 THEN <<0, r[2] + 1, 0>>
                        ELSE <<0, 0, r[3] + 1>>)

\* "x.y.z" := =x.y.z
SatisfiesExact(v, r) == v # NoVersion /\ r # NoVersion /\ CompareSemVer(v, r) = 0

\* semver.satisfies(version, range) for the three ranges the code builds
SemverSatisfies(version, range) ==
    IF Len(range) > 0 /\ range[1] = "~"
    THEN SatisfiesTilde(SemVer(version), SemVer(Tail(range)))
    ELSE IF Len(range) > 0 /\ range[1] = "^"
    THEN SatisfiesCaret(SemVer(version), SemVer(Tail(range)))
    ELSE SatisfiesExact(SemVer(version), SemVer(range))

\* ------------------------------------------------------------ semverify

semverify(version) ==
    IF Falsy(version) THEN Null
    ELSE LET cooerced == Coerce(version)
         IN  IF cooerced = NoVersion THEN Null ELSE Format(cooerced)

\* -------------------------------------------------------------- Options

OptionKeys == {"ignoreMinor", "ignorePatch", "allowHigherVersions"}

\* an options object sets any subset of the three flags
OptionsSet == UNION {[D -> BOOLEAN] : D \in SUBSET OptionKeys}

\* options.key in a boolean context: an absent key reads undefined
Opt(options, key) == key \in DOMAIN options /\ options[key]

\* ------------------------------------------------ compareBrowserSemvers

\* changed: the ignoreMinor test comes first, so "~" overrides "^"
compareBrowserSemvers_patchLast(versionA, versionB, options) ==
    LET semverifiedA == semverify(versionA)
        semverifiedB == semverify(versionB)
        ref1 == IF Opt(options, "ignoreMinor")
                THEN <<"^">> \o semverifiedB ELSE semverifiedB
        referenceVersion == IF Opt(options, "ignorePatch")
                            THEN <<"~">> \o semverifiedB ELSE ref1
    IN  IF Falsy(semverifiedA) \/ Falsy(semverifiedB) THEN FALSE
        ELSE IF Opt(options, "allowHigherVersions")
             THEN SemverGte(semverifiedA, semverifiedB)
             ELSE SemverSatisfies(semverifiedA, referenceVersion)

\* changed: allowHigherVersions is honoured only when no range prefix was chosen
compareBrowserSemvers_rangeFirst(versionA, versionB, options) ==
    LET semverifiedA == semverify(versionA)
        semverifiedB == semverify(versionB)
        ref1 == IF Opt(options, "ignorePatch")
                THEN <<"~">> \o semverifiedB ELSE semverifiedB
        referenceVersion == IF Opt(options, "ignoreMinor")
                            THEN <<"^">> \o semverifiedB ELSE ref1
    IN  IF Falsy(semverifiedA) \/ Falsy(semverifiedB) THEN FALSE
        ELSE IF Opt(options, "allowHigherVersions")
                /\ referenceVersion = semverifiedB
             THEN SemverGte(semverifiedA, semverifiedB)
             ELSE SemverSatisfies(semverifiedA, referenceVersion)

compareBrowserSemvers(versionA, versionB, options) ==
    LET semverifiedA == semverify(versionA)
        semverifiedB == semverify(versionB)
        ref1 == IF Opt(options, "ignorePatch")
                THEN <<"~">> \o semverifiedB ELSE semverifiedB
        referenceVersion == IF Opt(options, "ignoreMinor")
                            THEN <<"^">> \o semverifiedB ELSE ref1
    IN  IF Falsy(semverifiedA) \/ Falsy(semverifiedB) THEN FALSE
        ELSE IF Opt(options, "allowHigherVersions")
             THEN SemverGte(semverifiedA, semverifiedB)
             ELSE SemverSatisfies(semverifiedA, referenceVersion)

\* ------------------------------------------------------- input alphabets

Components == 0..MaxComp

\* "x", "x.y" and "x.y.z" for components in 0..MaxComp
CleanTokens ==
    {Dec(a) : a \in Components}
    \cup {Dec(a) \o <<".">> \o Dec(b) : a, b \in Components}
    \cup {Format(<<a, b, c>>) : a, b, c \in Components}

\* tokens that do not coerce, a token with leading text, a two-digit component
OddTokens ==
    { <<>>, <<"T", "P">>, <<"a", "l", "l">>, <<"v", "1", ".", "2">>,
      <<"1", "0", ".", "2">>, <<"1", ".", ".", "2">> }

VersionTokens == CleanTokens \cup OddTokens

\* ------------------------------------------- compareBrowserSemvers calls

InitCompare ==
    /\ fn = "compareBrowserSemvers"
    /\ args \in [versionA : VersionTokens, versionB : VersionTokens,
                 options : OptionsSet]
    /\ ret = NotReturned
    /\ pc = "call"
    /\ startSemver = Null /\ endSemver = Null /\ curVersion = Null
    /\ versionsInRange = <<>>

CallCompare ==
    /\ pc = "call" /\ fn = "compareBrowserSemvers"
    /\ ret' = Returned(compareBrowserSemvers(args.versionA, args.versionB, args.options))
    /\ pc' = "done"
    /\ UNCHANGED <<fn, args, startSemver, endSemver, curVersion, versionsInRange>>

SpecCompare == InitCompare /\ [][CallCompare]_vars

\* --------------------------------------- properties of the comparator

\* the version a token normalizes to, as numbers
V(token) == Coerce(token)
Normalizes(token) == semverify(token) # Null

\* a >= b in semantic version ordering, on numbers
VersionGe(a, b) ==
    \/ a[1] > b[1]
    \/ a[1] = b[1] /\ a[2] > b[2]
    \/ a[1] = b[1] /\ a[2] = b[2] /\ a[3] >= b[3]

\* a is in the tilde range of b: same major and minor, patch not lower
InTilde(a, b) == a[1] = b[1] /\ a[2] = b[2] /\ a[3] >= b[3]

\* a is in the caret range of b: not lower, and equal up to and including
\* the first non-zero component of b
InCaret(a, b) ==
    /\ VersionGe(a, b)
    /\ a[1] = b[1]
    /\ (b[1] = 0 => a[2] = b[2])
    /\ (b[1] = 0 /\ b[2] = 0 => a[3] = b[3])

CompareDone == pc = "done" /\ fn = "compareBrowserSemvers"

BothNormalize == Normalizes(args.versionA) /\ Normalizes(args.versionB)

\* C4 as stated: with ignorePatch and ignoreMinor both set and
\* allowHigherVersions not set, the reference range is the tilde range, so
\* the comparator is true exactly when the resolved version is in ~query
\* (a resolved version with another minor does not match).
C4_TildeWins ==
    (/\ CompareDone
     /\ Opt(args.options, "ignorePatch")
     /\ Opt(args.options, "ignoreMinor")
     /\ ~Opt(args.options, "allowHigherVersions"))
    => ret.value = (BothNormalize /\ InTilde(V(args.versionA), V(args.versionB)))

\* C4 amended: with ignorePatch and ignoreMinor both set and
\* allowHigherVersions not set, ignoreMinor takes precedence: the reference
\* range is the caret range, so the comparator is true exactly when the
\* resolved version is in ^query (a higher minor under the same non-zero
\* major matches).
C4_CaretWins ==
    (/\ CompareDone
     /\ Opt(args.options, "ignorePatch")
     /\ Opt(args.options, "ignoreMinor")
     /\ ~Opt(args.options, "allowHigherVersions"))
    => ret.value = (BothNormalize /\ InCaret(V(args.versionA), V(args.versionB)))

C4_Witness ==
    /\ CompareDone
    /\ Opt(args.options, "ignorePatch")
    /\ Opt(args.options, "ignoreMinor")
    /\ ~Opt(args.options, "allowHigherVersions")
    /\ BothNormalize
    /\ V(args.versionA)[1] = V(args.versionB)[1]
    /\ V(args.versionA)[1] > 0
    /\ V(args.versionA)[2] > V(args.versionB)[2]
    /\ ret.value = TRUE

\* C5: with allowHigherVersions set the comparator returns exactly
\* (normalized resolved version >= normalized query version) when both
\* versions normalize and false otherwise, and ignorePatch and ignoreMinor
\* make no difference to the result.
C5_AllowHigher ==
    (CompareDone /\ Opt(args.options, "allowHigherVersions"))
    => /\ ret.value = (BothNormalize /\ VersionGe(V(args.versionA), V(args.versionB)))
       /\ \A o \in OptionsSet :
             Opt(o, "allowHigherVersions")
             => compareBrowserSemvers(args.versionA, args.versionB, o) = ret.value

C5_Witness ==
    /\ CompareDone
    /\ Opt(args.options, "allowHigherVersions")
    /\ Opt(args.options, "ignorePatch")
    /\ BothNormalize
    /\ V(args.versionA)[1] > V(args.versionB)[1]
    /\ ret.value = TRUE

\* C6: with ignorePatch set and ignoreMinor and allowHigherVersions not set,
\* for two versions that both normalize the comparator is true exactly when
\* their major and minor components are equal, whatever the patch components.
C6_PatchIgnored ==
    (/\ CompareDone
     /\ Opt(args.options, "ignorePatch")
     /\ ~Opt(args.options, "ignoreMinor")
     /\ ~Opt(args.options, "allowHigherVersions")
     /\ BothNormalize)
    => ret.value = (/\ V(args.versionA)[1] = V(args.versionB)[1]
              /\ V(args.versionA)[2] = V(args.versionB)[2])

\* ------------------------------------------------------ resolveUserAgent

\* changed: the engine tests come before the browser-name tests
resolveUserAgent_engineFirst(ua) ==
    LET browser == ua.browser
        os == ua.os
        engine == ua.engine
        device == ua.device
        parsedBrowserVersion == semverify(browser.version)
        parsedOSVersion == semverify(os.version)
        parsedEngineVersion == semverify(engine.version)
    IN  IF browser.name = <<"S", "a", "f", "a", "r", "i">> /\ os.name = <<"i", "O", "S">>
        THEN [family |-> <<"i", "O", "S">>, version |-> parsedBrowserVersion]
        ELSE IF os.name = <<"i", "O", "S">>
        THEN [family |-> <<"i", "O", "S">>, version |-> parsedOSVersion]
        ELSE IF engine.name = <<"G", "e", "c", "k", "o">>
        THEN [family |-> <<"F", "i", "r", "e", "f", "o", "x">>, version |-> parsedEngineVersion]
        ELSE IF engine.name = <<"B", "l", "i", "n", "k">>
        THEN [family |-> <<"C", "h", "r", "o", "m", "e">>, version |-> parsedEngineVersion]
        ELSE IF \/ browser.name = <<"O", "p", "e", "r", "a">> /\ device.type = <<"m", "o", "b", "i", "l", "e">>
                \/ browser.name = <<"O", "p", "e", "r", "a", " ", "M", "o", "b", "i">>
        THEN [family |-> <<"O", "p", "e", "r", "a", "M", "o", "b", "i", "l", "e">>, version |-> parsedBrowserVersion]
        ELSE IF browser.name = <<"S", "a", "m", "s", "u", "n", "g", " ", "I", "n", "t", "e", "r", "n", "e", "t">>
        THEN [family |-> <<"S", "a", "m", "s", "u", "n", "g">>, version |-> parsedBrowserVersion]
        ELSE IF browser.name = <<"I", "E">>
        THEN [family |-> <<"E", "x", "p", "l", "o", "r", "e", "r">>, version |-> parsedBrowserVersion]
        ELSE IF browser.name = <<"I", "E", "M", "o", "b", "i", "l", "e">>
        THEN [family |-> <<"E", "x", "p", "l", "o", "r", "e", "r", "M", "o", "b", "i", "l", "e">>, version |-> parsedBrowserVersion]
        ELSE IF /\ ~Falsy(browser.name)
                /\ browser.name \in {<<"C", "h", "r", "o", "m", "e">>, <<"C", "h", "r", "o", "m", "i", "u", "m">>, <<"C", "h", "r", "o", "m", "e", " ", "W", "e", "b", "V", "i", "e", "w">>,
                                     <<"C", "h", "r", "o", "m", "e", " ", "H", "e", "a", "d", "l", "e", "s", "s">>}
        THEN [family |-> <<"C", "h", "r", "o", "m", "e">>, version |-> parsedBrowserVersion]
        ELSE IF browser.name = <<"A", "n", "d", "r", "o", "i", "d", " ", "B", "r", "o", "w", "s", "e", "r">>
        THEN [family |-> <<"A", "n", "d", "r", "o", "i", "d">>, version |-> parsedOSVersion]
        ELSE [family |-> IF Falsy(browser.name) THEN Null ELSE browser.name,
              version |-> parsedBrowserVersion]

\* ua is what UAParser reports for the string: getBrowser(), getOS(),
\* getEngine(), getDevice()
resolveUserAgent(ua) ==
    LET browser == ua.browser
        os == ua.os
        engine == ua.engine
        device == ua.device
        parsedBrowserVersion == semverify(browser.version)
        parsedOSVersion == semverify(os.version)
        parsedEngineVersion == semverify(engine.version)
    IN  IF browser.name = <<"S", "a", "f", "a", "r", "i">> /\ os.name = <<"i", "O", "S">>
        THEN [family |-> <<"i", "O", "S">>, version |-> parsedBrowserVersion]
        ELSE IF os.name = <<"i", "O", "S">>
        THEN [family |-> <<"i", "O", "S">>, version |-> parsedOSVersion]
        ELSE IF \/ browser.name = <<"O", "p", "e", "r", "a">> /\ device.type = <<"m", "o", "b", "i", "l", "e">>
                \/ browser.name = <<"O", "p", "e", "r", "a", " ", "M", "o", "b", "i">>
        THEN [family |-> <<"O", "p", "e", "r", "a", "M", "o", "b", "i", "l", "e">>, version |-> parsedBrowserVersion]
        ELSE IF browser.name = <<"S", "a", "m", "s", "u", "n", "g", " ", "I", "n", "t", "e", "r", "n", "e", "t">>
        THEN [family |-> <<"S", "a", "m", "s", "u", "n", "g">>, version |-> parsedBrowserVersion]
        ELSE IF browser.name = <<"I", "E">>
        THEN [family |-> <<"E", "x", "p", "l", "o", "r", "e", "r">>, version |-> parsedBrowserVersion]
        ELSE IF browser.name = <<"I", "E", "M", "o", "b", "i", "l", "e">>
        THEN [family |-> <<"E", "x", "p", "l", "o", "r", "e", "r", "M", "o", "b", "i", "l", "e">>, version |-> parsedBrowserVersion]
        ELSE IF engine.name = <<"G", "e", "c", "k", "o">>
        THEN [family |-> <<"F", "i", "r", "e", "f", "o", "x">>, version |-> parsedEngineVersion]
        ELSE IF engine.name = <<"B", "l", "i", "n", "k">>
        THEN [family |-> <<"C", "h", "r", "o", "m", "e">>, version |-> parsedEngineVersion]
        ELSE IF /\ ~Falsy(browser.name)
                /\ browser.name \in {<<"C", "h", "r", "o", "m", "e">>, <<"C", "h", "r", "o", "m", "i", "u", "m">>, <<"C", "h", "r", "o", "m", "e", " ", "W", "e", "b", "V", "i", "e", "w">>,
                                     <<"C", "h", "r", "o", "m", "e", " ", "H", "e", "a", "d", "l", "e", "s", "s">>}
        THEN [family |-> <<"C", "h", "r", "o", "m", "e">>, version |-> parsedBrowserVersion]
        ELSE IF browser.name = <<"A", "n", "d", "r", "o", "i", "d", " ", "B", "r", "o", "w", "s", "e", "r">>
        THEN [family |-> <<"A", "n", "d", "r", "o", "i", "d">>, version |-> parsedOSVersion]
        ELSE [family |-> IF Falsy(browser.name) THEN Null ELSE browser.name,
              version |-> parsedBrowserVersion]

\* what the user-agent parser may report
BrowserNames ==
    { <<"S", "a", "f", "a", "r", "i">>, <<"O", "p", "e", "r", "a">>, <<"O", "p", "e", "r", "a", " ", "M", "o", "b", "i">>, <<"S", "a", "m", "s", "u", "n", "g", " ", "I", "n", "t", "e", "r", "n", "e", "t">>, <<"I", "E">>,
      <<"I", "E", "M", "o", "b", "i", "l", "e">>, <<"C", "h", "r", "o", "m", "e">>, <<"C", "h", "r", "o", "m", "i", "u", "m">>, <<"C", "h", "r", "o", "m", "e", " ", "W", "e", "b", "V", "i", "e", "w">>,
      <<"C", "h", "r", "o", "m", "e", " ", "H", "e", "a", "d", "l", "e", "s", "s">>, <<"A", "n", "d", "r", "o", "i", "d", " ", "B", "r", "o", "w", "s", "e", "r">>, <<"E", "d", "g", "e">>, <<"F", "i", "r", "e", "f", "o", "x">>,
      <<>>, Undefined }
OSNames == { <<"i", "O", "S">>, <<"A", "n", "d", "r", "o", "i", "d">>, Undefined }
EngineNames == { <<"G", "e", "c", "k", "o">>, <<"B", "l", "i", "n", "k">>, <<"W", "e", "b", "K", "i", "t">>, Undefined }
DeviceTypes == { <<"m", "o", "b", "i", "l", "e">>, <<"t", "a", "b", "l", "e", "t">>, Undefined }
UAVersions == { Undefined, <<"1">>, <<"0", ".", "2">>, <<"2", ".", "1", ".", "0">>, <<"x">> }

ParsedUAs ==
    [ browser : [name : BrowserNames, version : UAVersions],
      os : [name : OSNames, version : UAVersions],
      engine : [name : EngineNames, version : UAVersions],
      device : [type : DeviceTypes] ]

InitResolve ==
    /\ fn = "resolveUserAgent"
    /\ args \in [ua : ParsedUAs]
    /\ ret = NotReturned
    /\ pc = "call"
    /\ startSemver = Null /\ endSemver = Null /\ curVersion = Null
    /\ versionsInRange = <<>>

CallResolve ==
    /\ pc = "call" /\ fn = "resolveUserAgent"
    /\ ret' = Returned(resolveUserAgent(args.ua))
    /\ pc' = "done"
    /\ UNCHANGED <<fn, args, startSemver, endSemver, curVersion, versionsInRange>>

SpecResolve == InitResolve /\ [][CallResolve]_vars

\* ----------------------------------------- properties of the resolver

\* the documented decision list: the condition of rule i
RuleHolds(i, ua) ==
    CASE i = 1 -> ua.browser.name = <<"S", "a", "f", "a", "r", "i">> /\ ua.os.name = <<"i", "O", "S">>
      [] i = 2 -> ua.os.name = <<"i", "O", "S">>
      [] i = 3 -> \/ ua.browser.name = <<"O", "p", "e", "r", "a">> /\ ua.device.type = <<"m", "o", "b", "i", "l", "e">>
                  \/ ua.browser.name = <<"O", "p", "e", "r", "a", " ", "M", "o", "b", "i">>
      [] i = 4 -> ua.browser.name = <<"S", "a", "m", "s", "u", "n", "g", " ", "I", "n", "t", "e", "r", "n", "e", "t">>
      [] i = 5 -> ua.browser.name = <<"I", "E">>
      [] i = 6 -> ua.browser.name = <<"I", "E", "M", "o", "b", "i", "l", "e">>
      [] i = 7 -> ua.engine.name = <<"G", "e", "c", "k", "o">>
      [] i = 8 -> ua.engine.name = <<"B", "l", "i", "n", "k">>
      [] i = 9 -> ua.browser.name \in {<<"C", "h", "r", "o", "m", "e">>, <<"C", "h", "r", "o", "m", "i", "u", "m">>,
                                       <<"C", "h", "r", "o", "m", "e", " ", "W", "e", "b", "V", "i", "e", "w">>, <<"C", "h", "r", "o", "m", "e", " ", "H", "e", "a", "d", "l", "e", "s", "s">>}
      [] i = 10 -> ua.browser.name = <<"A", "n", "d", "r", "o", "i", "d", " ", "B", "r", "o", "w", "s", "e", "r">>
      [] i = 11 -> TRUE

\* the family rule i yields
RuleFamily(i, ua) ==
    CASE i \in {1, 2} -> <<"i", "O", "S">>
      [] i = 3 -> <<"O", "p", "e", "r", "a", "M", "o", "b", "i", "l", "e">>
      [] i = 4 -> <<"S", "a", "m", "s", "u", "n", "g">>
      [] i = 5 -> <<"E", "x", "p", "l", "o", "r", "e", "r">>
      [] i = 6 -> <<"E", "x", "p", "l", "o", "r", "e", "r", "M", "o", "b", "i", "l", "e">>
      [] i = 7 -> <<"F", "i", "r", "e", "f", "o", "x">>
      [] i \in {8, 9} -> <<"C", "h", "r", "o", "m", "e">>
      [] i = 10 -> <<"A", "n", "d", "r", "o", "i", "d">>
      [] i = 11 -> IF ua.browser.name \in {<<>>, Undefined, Null}
                   THEN Null ELSE ua.browser.name

\* the raw version rule i normalizes
RuleVersion(i, ua) ==
    CASE i \in {2, 10} -> ua.os.version
      [] i \in {7, 8} -> ua.engine.version
      [] OTHER -> ua.browser.version

LowestRule(ua) ==
    CHOOSE i \in 1..11 : RuleHolds(i, ua) /\ \A j \in 1..(i - 1) : ~RuleHolds(j, ua)

ResolveDone == pc = "done" /\ fn = "resolveUserAgent"

\* C7: resolveUserAgent returns the family and the normalized version of
\* the lowest-numbered rule whose condition holds; iOS shadows every engine,
\* the browser names of rules 3-6 shadow Gecko and Blink, Blink shadows the
\* Chrome names and "Android Browser", and the default is the raw browser
\* name, or null when it is absent.
C7_FirstMatchWins ==
    ResolveDone =>
    LET ua == args.ua
        i == LowestRule(ua)
    IN  /\ ret.value.family = RuleFamily(i, ua)
        /\ ret.value.version = semverify(RuleVersion(i, ua))
        /\ (ua.os.name = <<"i", "O", "S">> =>
              /\ ret.value.family = <<"i", "O", "S">>
              /\ ret.value.version = semverify(IF ua.browser.name = <<"S", "a", "f", "a", "r", "i">>
                                         THEN ua.browser.version
                                         ELSE ua.os.version))
        /\ (/\ ua.os.name # <<"i", "O", "S">>
            /\ \/ ua.browser.name \in {<<"S", "a", "m", "s", "u", "n", "g", " ", "I", "n", "t", "e", "r", "n", "e", "t">>, <<"I", "E">>, <<"I", "E", "M", "o", "b", "i", "l", "e">>,
                                       <<"O", "p", "e", "r", "a", " ", "M", "o", "b", "i">>}
               \/ /\ ua.browser.name = <<"O", "p", "e", "r", "a">>
                  /\ ua.device.type = <<"m", "o", "b", "i", "l", "e">>
            => ret.value.family \notin {<<"F", "i", "r", "e", "f", "o", "x">>, <<"C", "h", "r", "o", "m", "e">>})
        /\ (/\ ua.os.name # <<"i", "O", "S">>
            /\ ua.engine.name = <<"B", "l", "i", "n", "k">>
            /\ ua.browser.name \in {<<"C", "h", "r", "o", "m", "e">>, <<"C", "h", "r", "o", "m", "i", "u", "m">>, <<"C", "h", "r", "o", "m", "e", " ", "W", "e", "b", "V", "i", "e", "w">>,
                                    <<"C", "h", "r", "o", "m", "e", " ", "H", "e", "a", "d", "l", "e", "s", "s">>, <<"A", "n", "d", "r", "o", "i", "d", " ", "B", "r", "o", "w", "s", "e", "r">>}
            => ret.value = [family |-> <<"C", "h", "r", "o", "m", "e">>,
                      version |-> semverify(ua.engine.version)])
        /\ (i = 11 /\ ua.browser.name = Undefined => ret.value.family = Null)

\* a Gecko engine under browser name "IE", with three different versions
C7_Witness ==
    /\ ResolveDone
    /\ args.ua.os.name # <<"i", "O", "S">>
    /\ args.ua.browser.name = <<"I", "E">>
    /\ args.ua.engine.name = <<"G", "e", "c", "k", "o">>
    /\ args.ua.browser.version = <<"2", ".", "1", ".", "0">>
    /\ args.ua.engine.version = <<"1">>
    /\ ret.value = [family |-> <<"E", "x", "p", "l", "o", "r", "e", "r">>, version |-> <<"2", ".", "1", ".", "0">>]

\* ------------------------------------------------------- browserNameMap

\* changed: "ie" is listed before "ie_mob"
browserNameMap_ieFirst ==
    << [key |-> <<"b", "b">>, name |-> <<"B", "l", "a", "c", "k", "B", "e", "r", "r", "y">>],
       [key |-> <<"a", "n", "d", "_", "c", "h", "r">>, name |-> <<"C", "h", "r", "o", "m", "e">>],
       [key |-> <<"C", "h", "r", "o", "m", "e", "A", "n", "d", "r", "o", "i", "d">>, name |-> <<"C", "h", "r", "o", "m", "e">>],
       [key |-> <<"F", "i", "r", "e", "f", "o", "x", "A", "n", "d", "r", "o", "i", "d">>, name |-> <<"F", "i", "r", "e", "f", "o", "x">>],
       [key |-> <<"f", "f">>, name |-> <<"F", "i", "r", "e", "f", "o", "x">>],
       [key |-> <<"i", "e">>, name |-> <<"E", "x", "p", "l", "o", "r", "e", "r">>],
       [key |-> <<"i", "e", "_", "m", "o", "b">>, name |-> <<"E", "x", "p", "l", "o", "r", "e", "r", "M", "o", "b", "i", "l", "e">>],
       [key |-> <<"a", "n", "d", "_", "f", "f">>, name |-> <<"F", "i", "r", "e", "f", "o", "x">>],
       [key |-> <<"i", "o", "s", "_", "s", "a", "f">>, name |-> <<"i", "O", "S">>],
       [key |-> <<"o", "p", "_", "m", "i", "n", "i">>, name |-> <<"O", "p", "e", "r", "a", "M", "i", "n", "i">>],
       [key |-> <<"o", "p", "_", "m", "o", "b">>, name |-> <<"O", "p", "e", "r", "a", "M", "o", "b", "i", "l", "e">>],
       [key |-> <<"a", "n", "d", "_", "q", "q">>, name |-> <<"Q", "Q", "A", "n", "d", "r", "o", "i", "d">>],
       [key |-> <<"a", "n", "d", "_", "u", "c">>, name |-> <<"U", "C", "A", "n", "d", "r", "o", "i", "d">>] >>

\* the entries in insertion order, which is the order of Object.keys
browserNameMap ==
    << [key |-> <<"b", "b">>, name |-> <<"B", "l", "a", "c", "k", "B", "e", "r", "r", "y">>],
       [key |-> <<"a", "n", "d", "_", "c", "h", "r">>, name |-> <<"C", "h", "r", "o", "m", "e">>],
       [key |-> <<"C", "h", "r", "o", "m", "e", "A", "n", "d", "r", "o", "i", "d">>, name |-> <<"C", "h", "r", "o", "m", "e">>],
       [key |-> <<"F", "i", "r", "e", "f", "o", "x", "A", "n", "d", "r", "o", "i", "d">>, name |-> <<"F", "i", "r", "e", "f", "o", "x">>],
       [key |-> <<"f", "f">>, name |-> <<"F", "i", "r", "e", "f", "o", "x">>],
       [key |-> <<"i", "e", "_", "m", "o", "b">>, name |-> <<"E", "x", "p", "l", "o", "r", "e", "r", "M", "o", "b", "i", "l", "e">>],
       [key |-> <<"i", "e">>, name |-> <<"E", "x", "p", "l", "o", "r", "e", "r">>],
       [key |-> <<"a", "n", "d", "_", "f", "f">>, name |-> <<"F", "i", "r", "e", "f", "o", "x">>],
       [key |-> <<"i", "o", "s", "_", "s", "a", "f">>, name |-> <<"i", "O", "S">>],
       [key |-> <<"o", "p", "_", "m", "i", "n", "i">>, name |-> <<"O", "p", "e", "r", "a", "M", "i", "n", "i">>],
       [key |-> <<"o", "p", "_", "m", "o", "b">>, name |-> <<"O", "p", "e", "r", "a", "M", "o", "b", "i", "l", "e">>],
       [key |-> <<"a", "n", "d", "_", "q", "q">>, name |-> <<"Q", "Q", "A", "n", "d", "r", "o", "i", "d">>],
       [key |-> <<"a", "n", "d", "_", "u", "c">>, name |-> <<"U", "C", "A", "n", "d", "r", "o", "i", "d">>] >>

\* name in browserNameMap
InNameMap(name) == \E i \in 1..Len(browserNameMap) : browserNameMap[i].key = name

\* browserNameMap[name]
NameMapGet(name) ==
    browserNameMap[CHOOSE i \in 1..Len(browserNameMap) :
                      browserNameMap[i].key = name].name

\* ------------------------------------------------------- normalizeQuery

\* query.match(new RegExp("(k1|k2|...)")): the leftmost position where an
\* alternative matches, and there the first alternative that matches;
\* Null when there is no match
RegexMatch(query) ==
    LET hits == {p \in 1..Len(query) :
                    \E i \in 1..Len(browserNameMap) :
                        OccursAt(query, browserNameMap[i].key, p)}
    IN  IF hits = {} THEN Null
        ELSE LET p == CHOOSE x \in hits : \A y \in hits : x <= y
                 i == CHOOSE x \in 1..Len(browserNameMap) :
                         /\ OccursAt(query, browserNameMap[x].key, p)
                         /\ \A y \in 1..(x - 1) :
                               ~OccursAt(query, browserNameMap[y].key, p)
             IN  browserNameMap[i].key

\* String.prototype.replace(pattern, replacement) for string arguments:
\* the first occurrence of pattern is replaced
StringReplace(s, pattern, replacement) ==
    LET i == IndexOf(s, pattern)
    IN  IF i = 0 THEN s
        ELSE SubSeq(s, 1, i - 1) \o replacement
             \o SubSeq(s, i + Len(pattern), Len(s))

normalizeQuery(query) ==
    LET match == RegexMatch(query)
    IN  IF match # Null
        THEN StringReplace(query, match, NameMapGet(match))
        ELSE query

\* the text a query is put together from
Pieces ==
    {browserNameMap[i].key : i \in 1..Len(browserNameMap)}
    \cup { <<" ">>, <<" ", "1", "1">>, <<"_", "m", "o", "b">>, <<"x">> }

RECURSIVE Queries(_)
Queries(n) ==
    IF n = 0 THEN {<<>>}
    ELSE Queries(n - 1) \cup {q \o p : q \in Queries(n - 1), p \in Pieces}

InitNormalize ==
    /\ fn = "normalizeQuery"
    /\ args \in [query : Queries(MaxPieces)]
    /\ ret = NotReturned
    /\ pc = "call"
    /\ startSemver = Null /\ endSemver = Null /\ curVersion = Null
    /\ versionsInRange = <<>>

CallNormalize ==
    /\ pc = "call" /\ fn = "normalizeQuery"
    /\ ret' = Returned(normalizeQuery(args.query))
    /\ pc' = "done"
    /\ UNCHANGED <<fn, args, startSemver, endSemver, curVersion, versionsInRange>>

SpecNormalize == InitNormalize /\ [][CallNormalize]_vars

\* ------------------------------------- properties of normalizeQuery

AliasKeys == {<<"b", "b">>, <<"a", "n", "d", "_", "c", "h", "r">>, <<"C", "h", "r", "o", "m", "e", "A", "n", "d", "r", "o", "i", "d">>, <<"F", "i", "r", "e", "f", "o", "x", "A", "n", "d", "r", "o", "i", "d">>, <<"f", "f">>,
              <<"i", "e", "_", "m", "o", "b">>, <<"i", "e">>, <<"a", "n", "d", "_", "f", "f">>, <<"i", "o", "s", "_", "s", "a", "f">>, <<"o", "p", "_", "m", "i", "n", "i">>, <<"o", "p", "_", "m", "o", "b">>,
              <<"a", "n", "d", "_", "q", "q">>, <<"a", "n", "d", "_", "u", "c">>}

\* the canonical name of an alias key
Canonical(key) ==
    CASE key = <<"b", "b">> -> <<"B", "l", "a", "c", "k", "B", "e", "r", "r", "y">>
      [] key \in {<<"a", "n", "d", "_", "c", "h", "r">>, <<"C", "h", "r", "o", "m", "e", "A", "n", "d", "r", "o", "i", "d">>} -> <<"C", "h", "r", "o", "m", "e">>
      [] key \in {<<"F", "i", "r", "e", "f", "o", "x", "A", "n", "d", "r", "o", "i", "d">>, <<"f", "f">>, <<"a", "n", "d", "_", "f", "f">>} -> <<"F", "i", "r", "e", "f", "o", "x">>
      [] key = <<"i", "e", "_", "m", "o", "b">> -> <<"E", "x", "p", "l", "o", "r", "e", "r", "M", "o", "b", "i", "l", "e">>
      [] key = <<"i", "e">> -> <<"E", "x", "p", "l", "o", "r", "e", "r">>
      [] key = <<"i", "o", "s", "_", "s", "a", "f">> -> <<"i", "O", "S">>
      [] key = <<"o", "p", "_", "m", "i", "n", "i">> -> <<"O", "p", "e", "r", "a", "M", "i", "n", "i">>
      [] key = <<"o", "p", "_", "m", "o", "b">> -> <<"O", "p", "e", "r", "a", "M", "o", "b", "i", "l", "e">>
      [] key = <<"a", "n", "d", "_", "q", "q">> -> <<"Q", "Q", "A", "n", "d", "r", "o", "i", "d">>
      [] key = <<"a", "n", "d", "_", "u", "c">> -> <<"U", "C", "A", "n", "d", "r", "o", "i", "d">>

\* the positions of q at which some alias key occurs
KeyPositions(q) == {p \in 1..Len(q) : \E k \in AliasKeys : OccursAt(q, k, p)}

NormalizeDone == pc = "done" /\ fn = "normalizeQuery"

\* C8: normalizeQuery returns the query unchanged when no alias key occurs
\* in it; otherwise it replaces one alias key, at the leftmost position where
\* an alias key occurs, by that key's canonical name and leaves every other
\* character as it is; a query that starts with an alias key and a space has
\* that whole key replaced by its own canonical name.
C8_OneAlias ==
    NormalizeDone =>
    LET q == args.query
    IN  /\ (KeyPositions(q) = {} => ret.value = q)
        /\ (KeyPositions(q) # {} =>
              LET p == CHOOSE x \in KeyPositions(q) :
                          \A y \in KeyPositions(q) : x <= y
              IN  \E k \in AliasKeys :
                     /\ OccursAt(q, k, p)
                     /\ ret.value = SubSeq(q, 1, p - 1) \o Canonical(k)
                                \o SubSeq(q, p + Len(k), Len(q)))
        /\ \A k \in AliasKeys :
              OccursAt(q, k \o <<" ">>, 1)
              => ret.value = Canonical(k) \o SubSeq(q, Len(k) + 1, Len(q))

\* "ie_mob 11" followed by a later alias, which stays
C8_Witness ==
    /\ NormalizeDone
    /\ args.query = <<"i", "e", "_", "m", "o", "b", " ", "1", "1">> \o <<"i", "e">>
    /\ ret.value = <<"E", "x", "p", "l", "o", "r", "e", "r", "M", "o", "b", "i", "l", "e", " ", "1", "1">> \o <<"i", "e">>

\* ------------------------------------------------ generateSemversInRange

\* the value standing for a call that never returns: the while loop is
\* still running when the minor component has passed MaxMinor
Diverges == << <<"diverges">> >>

\* the while loop, from curVersion on, with versionsInRange collected so far
RECURSIVE RangeLoop(_, _, _)
RangeLoop(end, cur, acc) ==
    IF SemverGte(end, cur)
    THEN IF SemVer(cur)[2] > MaxMinor THEN Diverges
         ELSE RangeLoop(end, SemverIncMinor(cur), Append(acc, cur))
    ELSE acc

generateSemversInRange(versionRange) ==
    LET parts == Split(versionRange, "-")
        start == Nth(parts, 1)
        end == Nth(parts, 2)
        startSv == semverify(start)
        endSv == semverify(end)
    IN  IF Falsy(startSv) \/ Falsy(endSv) THEN <<>>
        ELSE RangeLoop(endSv, startSv, <<>>)

\* the same function as a process, one loop iteration per step

RangeTokens ==
    {a \o <<"-">> \o b : a, b \in VersionTokens}
    \cup {<<"1", ".", "0", "-", "1", ".", "1", "-", "1", ".", "2">>, <<"1", ".", "0">>, <<"-", "1", ".", "1">>, <<"1", ".", "0", "-", "-", "1", ".", "1">>}

InitRange ==
    /\ fn = "generateSemversInRange"
    /\ args = [versionRange |-> Undefined]
    /\ ret = NotReturned
    /\ pc = "idle"
    /\ startSemver = Null /\ endSemver = Null /\ curVersion = Null
    /\ versionsInRange = <<>>

\* lines 150-159: the call with its argument; split, normalize, return []
\* or enter the loop
RangeEnter ==
    /\ pc = "idle"
    /\ \E versionRange \in RangeTokens :
          LET parts == Split(versionRange, "-")
              startSv == semverify(Nth(parts, 1))
              endSv == semverify(Nth(parts, 2))
          IN  /\ args' = [versionRange |-> versionRange]
              /\ startSemver' = startSv
              /\ endSemver' = endSv
              /\ IF Falsy(startSv) \/ Falsy(endSv)
                 THEN /\ ret' = Returned(<<>>)
                      /\ pc' = "done"
                      /\ UNCHANGED curVersion
                 ELSE /\ curVersion' = startSv
                      /\ pc' = "loop"
                      /\ UNCHANGED ret
    /\ UNCHANGED <<fn, versionsInRange>>

\* lines 161-164: one iteration of the while loop
RangeStep ==
    /\ pc = "loop"
    /\ SemverGte(endSemver, curVersion)
    /\ SemVer(curVersion)[2] <= MaxMinor
    /\ versionsInRange' = Append(versionsInRange, curVersion)
    /\ curVersion' = SemverIncMinor(curVersion)
    /\ UNCHANGED <<fn, args, ret, pc, startSemver, endSemver>>

\* line 166: the loop condition is false
RangeReturn ==
    /\ pc = "loop"
    /\ ~SemverGte(endSemver, curVersion)
    /\ ret' = Returned(versionsInRange)
    /\ pc' = "done"
    /\ UNCHANGED <<fn, args, startSemver, endSemver, curVersion, versionsInRange>>

\* lines 161-164 past the bound: the loop condition still holds with the
\* minor component beyond MaxMinor; the call counts as never returning
RangeRunaway ==
    /\ pc = "loop"
    /\ SemverGte(endSemver, curVersion)
    /\ SemVer(curVersion)[2] > MaxMinor
    /\ ret' = Returned(Diverges)
    /\ pc' = "diverges"
    /\ UNCHANGED <<fn, args, startSemver, endSemver, curVersion, versionsInRange>>

NextRange == RangeEnter \/ RangeStep \/ RangeReturn \/ RangeRunaway

SpecRange == InitRange /\ [][NextRange]_vars

\* --------------------------------- properties of the range expander

\* the ranges whose boundaries both normalize and whose end has a greater
\* major version than the start
CrossesMajor(versionRange) ==
    LET parts == Split(versionRange, "-")
        a == semverify(Nth(parts, 1))
        b == semverify(Nth(parts, 2))
    IN  ~Falsy(a) /\ ~Falsy(b) /\ V(a)[1] < V(b)[1]

\* C9: the Range Expander returns a finite sequence for every range token:
\* the empty sequence when a boundary does not normalize, and otherwise the
\* minor-increment loop reaches a version greater than the end; it is never
\* found still running with the minor component past the bound.
C9_Terminates ==
    /\ (pc = "done" /\ (Falsy(startSemver) \/ Falsy(endSemver))
          => ret.value = <<>>)
    /\ pc # "diverges"

\* the loop runs away only on a range that crosses a major version, and on
\* such a range the loop condition holds whatever the minor component is
RangeRunsAwayOnlyAcrossMajor ==
    /\ (pc = "diverges" => CrossesMajor(args.versionRange))
    /\ (pc \in {"loop", "diverges"} /\ CrossesMajor(args.versionRange)
          => \A n \in 0..(10 * (MaxMinor + 1)) :
                SemverGte(endSemver, Format(<<V(curVersion)[1], n, 0>>)))
    /\ (pc = "loop" /\ ~CrossesMajor(args.versionRange)
          => V(curVersion)[2] <= MaxComp + 1)

\* the stepped loop returns what generateSemversInRange computes
RangeStepsAgree ==
    pc \in {"done", "diverges"}
    => ret.value = generateSemversInRange(args.versionRange)


\* ------------------------------------------------------ parseBrowsersList

\* a call ends by returning a value, by throwing, or not at all
Return(value) == [outcome |-> "returned", value |-> value]
Throws == [outcome |-> "throws"]
NeverReturns == [outcome |-> "diverges"]

\* lines 185-188: const [name, version] = browser.split(' ')
SplitEntry(browser) ==
    LET parts == Split(browser, " ")
    IN  [name |-> Nth(parts, 1), version |-> Nth(parts, 2)]

\* lines 202-205: one entry per version of the range
RangeEntries(family, range) ==
    IF range = Diverges THEN NeverReturns
    ELSE Return([i \in 1..Len(range) |-> [family |-> family, version |-> range[i]]])

\* lines 191-212: the second map callback; an array for a range, else one
\* entry (here a one-element array, which flat() makes no difference to);
\* browser.version.indexOf throws when the entry has no space
MapEntry(browser) ==
    LET normalizedName == IF InNameMap(browser.name)
                          THEN NameMapGet(browser.name) ELSE browser.name
        normalizedVersion == browser.version
    IN  IF browser.version = Undefined THEN Throws
        ELSE IF IndexOf(browser.version, <<"-">>) > 1
        THEN RangeEntries(normalizedName, generateSemversInRange(browser.version))
        ELSE Return(<<[family |-> normalizedName, version |-> normalizedVersion]>>)

\* Array.prototype.flat()
RECURSIVE Flat(_)
Flat(arrays) ==
    IF arrays = <<>> THEN <<>> ELSE Head(arrays) \o Flat(Tail(arrays))

\* line 214: the entries are mapped in order, so the first one that throws
\* or runs away decides how the call ends; otherwise the arrays are flattened
FlatOrFail(mapped) ==
    IF \E i \in 1..Len(mapped) : mapped[i].outcome # "returned"
    THEN mapped[CHOOSE i \in 1..Len(mapped) :
                   /\ mapped[i].outcome # "returned"
                   /\ \A j \in 1..(i - 1) : mapped[j].outcome = "returned"]
    ELSE Return(Flat([i \in 1..Len(mapped) |-> mapped[i].value]))

\* lines 191-212 over the filtered entries
MapAll(filtered) == [i \in 1..Len(filtered) |-> MapEntry(filtered[i])]

parseBrowsersList(browsersList) ==
    LET split == [i \in 1..Len(browsersList) |-> SplitEntry(browsersList[i])]
        filtered == SelectSeq(split, LAMBDA b : b.version # <<"T", "P">>)
    IN  FlatOrFail(MapAll(filtered))

\* lists of at most n elements of S
RECURSIVE Lists(_, _)
Lists(S, n) ==
    IF n = 0 THEN {<<>>}
    ELSE Lists(S, n - 1) \cup {Append(l, x) : l \in Lists(S, n - 1), x \in S}

\* "name version" strings as browserslist returns them
ParseNames == { <<"c", "h", "r", "o", "m", "e">>, <<"i", "e", "_", "m", "o", "b">>, <<"a", "n", "d", "_", "f", "f">> }
ParseVersions ==
    { <<"1">>, <<"1", ".", "1">>, <<"T", "P">>, <<"a", "l", "l">>, <<"0", ".", "1", "-", "0", ".", "2">>, <<"0", ".", "1", ".", "1", "-", "0", ".", "2">>, <<"1", ".", "2", "-", "1", ".", "0">>,
      <<"x", "-", "1", ".", "2">>, <<"0", ".", "2", "-", "1", ".", "0">> }
ParseEntries == {n \o <<" ">> \o v : n \in ParseNames, v \in ParseVersions}

InitParse ==
    /\ fn = "parseBrowsersList"
    /\ args \in [browsersList : Lists(ParseEntries, MaxList)]
    /\ ret = NotReturned
    /\ pc = "call"
    /\ startSemver = Null /\ endSemver = Null /\ curVersion = Null
    /\ versionsInRange = <<>>

CallParse ==
    /\ pc = "call" /\ fn = "parseBrowsersList"
    /\ ret' = Returned(parseBrowsersList(args.browsersList))
    /\ pc' = "done"
    /\ UNCHANGED <<fn, args, startSemver, endSemver, curVersion, versionsInRange>>

SpecParse == InitParse /\ [][CallParse]_vars

\* ------------------------------------------- properties of the parser

\* the text before and after the first occurrence of a character
Before(s, c) ==
    IF IndexOf(s, <<c>>) = 0 THEN s ELSE SubSeq(s, 1, IndexOf(s, <<c>>) - 1)
After(s, c) ==
    IF IndexOf(s, <<c>>) = 0 THEN <<>>
    ELSE SubSeq(s, IndexOf(s, <<c>>) + 1, Len(s))

\* the versions a range stands for: the normalized start, then its minor
\* increments with patch 0, as long as they are not greater than the
\* normalized end (counted up to the bound)
ExpectedRange(version) ==
    LET a == V(Before(version, "-"))
        b == V(After(version, "-"))
        at(k) == IF k = 0 THEN a ELSE <<a[1], a[2] + k, 0>>
    IN  IF a = NoVersion \/ b = NoVersion THEN <<>>
        ELSE LET n == Cardinality({k \in 0..(MaxMinor + 1) :
                                     \A j \in 0..k : VersionGe(b, at(j))})
             IN  [k \in 1..n |-> Format(at(k - 1))]

ExpectedFamily(name) == IF name \in AliasKeys THEN Canonical(name) ELSE name

\* what one "name version" string contributes
ExpectedEntries(browser) ==
    LET name == Before(browser, " ")
        version == After(browser, " ")
    IN  IF version = <<"T", "P">> THEN <<>>
        ELSE IF \E i \in 2..Len(version) : version[i] = "-"
        THEN [k \in 1..Len(ExpectedRange(version)) |->
                 [family |-> ExpectedFamily(name),
                  version |-> ExpectedRange(version)[k]]]
        ELSE <<[family |-> ExpectedFamily(name), version |-> version]>>

RECURSIVE ExpectedParse(_)
ExpectedParse(browsersList) ==
    IF browsersList = <<>> THEN <<>>
    ELSE ExpectedEntries(Head(browsersList)) \o ExpectedParse(Tail(browsersList))

\* does an entry hold a range that crosses a major version
EntryCrossesMajor(browser) ==
    LET version == After(browser, " ")
    IN  IndexOf(version, <<"-">>) > 1 /\ CrossesMajor(version)

ParseDone == pc = "done" /\ fn = "parseBrowsersList"

\* C10: the Query List Parser returns the flat sequence, in input order, of
\* what each entry contributes: nothing for version "TP", one entry per
\* version of the expanded range for a range, and otherwise one entry with
\* the version unchanged, each under the canonical name of an alias key.
C10_FlatInOrder ==
    ParseDone => ret.value = Return(ExpectedParse(args.browsersList))

\* C10 holds of every list without a range that crosses a major version
C10_WithinMajor ==
    (/\ ParseDone
     /\ \A i \in 1..Len(args.browsersList) :
           ~EntryCrossesMajor(args.browsersList[i]))
    => ret.value = Return(ExpectedParse(args.browsersList))

\* and a range that crosses a major version is the only way not to return
ParseNeverReturnsOnlyAcrossMajor ==
    ParseDone =>
       (ret.value.outcome # "returned")
       = (/\ ret.value = NeverReturns
          /\ \E i \in 1..Len(args.browsersList) :
                EntryCrossesMajor(args.browsersList[i]))


\* -------------------------------------------------------------- matchesUA

\* lines 273-277: { ignoreMinor: false, ignorePatch: true, ...opts }
DefaultOptions == [ignoreMinor |-> FALSE, ignorePatch |-> TRUE]

Overlay(defaults, opts) ==
    [k \in DOMAIN defaults \cup DOMAIN opts |->
        IF k \in DOMAIN opts THEN opts[k] ELSE defaults[k]]

\* lines 279-289: parsedBrowsers.some(...), scanning in order
\* (toLowerCase and toLocaleLowerCase are both the mapping of A-Z to a-z)
RECURSIVE Some(_, _, _)
Some(parsedBrowsers, resolvedUserAgent, options) ==
    IF parsedBrowsers = <<>> THEN FALSE
    ELSE LET browser == Head(parsedBrowsers)
             hit == IF Falsy(resolvedUserAgent.family) THEN FALSE
                    ELSE IF Falsy(resolvedUserAgent.version) THEN FALSE
                    ELSE IF Falsy(browser.version) THEN FALSE
                    ELSE /\ ToLowerCase(browser.family)
                            = ToLowerCase(resolvedUserAgent.family)
                         /\ compareBrowserSemvers(resolvedUserAgent.version,
                                                  browser.version, options)
         IN  IF hit THEN TRUE
             ELSE Some(Tail(parsedBrowsers), resolvedUserAgent, options)

\* the two results, and the two ways of not giving one
Result(bool, query) ==
    [outcome |-> IF bool THEN "true" ELSE "false",
     resolverCalled |-> TRUE, query |-> query]
NoResult(outcome, query) ==
    [outcome |-> outcome, resolverCalled |-> TRUE, query |-> query]

\* changed: a failure of browserslist is caught and reported as no match
matchesUA_swallows(uaString, ua, browsers, opts, resolver) ==
    IF Falsy(uaString)
    THEN [outcome |-> "false", resolverCalled |-> FALSE, query |-> Undefined]
    ELSE
    LET normalizedQuery ==
            IF browsers # Undefined
            THEN [i \in 1..Len(browsers) |-> normalizeQuery(browsers[i])]
            ELSE Undefined
    IN  IF resolver.outcome = "throws" THEN Result(FALSE, normalizedQuery)
        ELSE
        LET parsedBrowsers == parseBrowsersList(resolver.value)
            resolvedUserAgent == resolveUserAgent(ua)
            options == Overlay(DefaultOptions, opts)
        IN  IF parsedBrowsers.outcome # "returned"
            THEN NoResult(parsedBrowsers.outcome, normalizedQuery)
            ELSE Result(Some(parsedBrowsers.value, resolvedUserAgent, options),
                        normalizedQuery)

\* changed: browserslist is called before the user agent is looked at
matchesUA_resolvesFirst(uaString, ua, browsers, opts, resolver) ==
    LET normalizedQuery ==
            IF browsers # Undefined
            THEN [i \in 1..Len(browsers) |-> normalizeQuery(browsers[i])]
            ELSE Undefined
    IN  IF resolver.outcome = "throws" THEN NoResult("throws", normalizedQuery)
        ELSE IF Falsy(uaString) THEN Result(FALSE, normalizedQuery)
        ELSE
        LET parsedBrowsers == parseBrowsersList(resolver.value)
            resolvedUserAgent == resolveUserAgent(ua)
            options == Overlay(DefaultOptions, opts)
        IN  IF parsedBrowsers.outcome # "returned"
            THEN NoResult(parsedBrowsers.outcome, normalizedQuery)
            ELSE Result(Some(parsedBrowsers.value, resolvedUserAgent, options),
                        normalizedQuery)

\* uaString: the string; ua: what UAParser reports for it; browsers:
\* opts.browsers; opts: the three flags of opts; resolver: how the call of
\* browserslist(normalizedQuery, {env, path}) ends for opts.env and opts.path
matchesUA(uaString, ua, browsers, opts, resolver) ==
    IF Falsy(uaString)
    THEN [outcome |-> "false", resolverCalled |-> FALSE, query |-> Undefined]
    ELSE
    LET normalizedQuery ==
            IF browsers # Undefined
            THEN [i \in 1..Len(browsers) |-> normalizeQuery(browsers[i])]
            ELSE Undefined
    IN  IF resolver.outcome = "throws" THEN NoResult("throws", normalizedQuery)
        ELSE
        LET parsedBrowsers == parseBrowsersList(resolver.value)
            resolvedUserAgent == resolveUserAgent(ua)
            options == Overlay(DefaultOptions, opts)
        IN  IF parsedBrowsers.outcome # "returned"
            THEN NoResult(parsedBrowsers.outcome, normalizedQuery)
            ELSE Result(Some(parsedBrowsers.value, resolvedUserAgent, options),
                        normalizedQuery)

\* the user-agent strings and what the parser reports for them
NothingParsed ==
    [ browser |-> [name |-> Undefined, version |-> Undefined],
      os |-> [name |-> Undefined, version |-> Undefined],
      engine |-> [name |-> Undefined, version |-> Undefined],
      device |-> [type |-> Undefined] ]

MatchUAs ==
    [ browser : [name : {<<"C", "h", "r", "o", "m", "e">>, <<"I", "E">>, Undefined},
                 version : {<<"1", ".", "1">>, Undefined}],
      os : [name : {<<"i", "O", "S">>, Undefined}, version : {<<"1", ".", "2">>}],
      engine : [name : {Undefined}, version : {Undefined}],
      device : [type : {Undefined}] ]

UserAgents ==
    {[uaString |-> s, ua |-> NothingParsed] : s \in {Null, Undefined, <<>>}}
    \cup {[uaString |-> <<"M", "o", "z", "i", "l", "l", "a", "/", "5", ".", "0">>, ua |-> p] : p \in MatchUAs}

\* what browserslist returns: "name version" strings
QueryResults ==
    { <<"c", "h", "r", "o", "m", "e", " ", "1">>, <<"i", "e", " ", "1", ".", "1">>, <<"i", "o", "s", "_", "s", "a", "f", " ", "1", ".", "0", "-", "1", ".", "2">>,
      <<"o", "p", "_", "m", "i", "n", "i", " ", "a", "l", "l">>, <<"o", "p", "_", "m", "i", "n", "i", " ", "0", ".", "2", "-", "1", ".", "0">> }

ResolverOutcomes ==
    {Throws} \cup {Return(l) : l \in Lists(QueryResults, MaxList)}

BrowsersOptions == { Undefined, <<<<"i", "e", " ", "1", "1">>, <<"l", "a", "s", "t", " ", "2", " ", "v", "e", "r", "s", "i", "o", "n", "s">>>> }

Init ==
    /\ fn = "matchesUA"
    /\ \E u \in UserAgents, b \in BrowsersOptions, o \in OptionsSet,
          r \in ResolverOutcomes :
          args = [uaString |-> u.uaString, ua |-> u.ua, browsers |-> b,
                  opts |-> o, resolver |-> r]
    /\ ret = NotReturned
    /\ pc = "call"
    /\ startSemver = Null /\ endSemver = Null /\ curVersion = Null
    /\ versionsInRange = <<>>

CallMatchesUA ==
    /\ pc = "call" /\ fn = "matchesUA"
    /\ ret' = Returned(matchesUA(args.uaString, args.ua, args.browsers,
                                 args.opts, args.resolver))
    /\ pc' = "done"
    /\ UNCHANGED <<fn, args, startSemver, endSemver, curVersion, versionsInRange>>

Spec == Init /\ [][CallMatchesUA]_vars


\* ------------------------------------------- properties of matchesUA

MatchDone == pc = "done" /\ fn = "matchesUA"

\* the entries of a returned query list, parsed as C10 describes
EntriesOf(list) == ExpectedParse(list)

\* some parsed entry has the resolved family, ignoring case, a version, and
\* the comparator's approval under the overlaid options
AnyEntryMatches(list, resolved, opts) ==
    /\ resolved.family # Null
    /\ resolved.version # Null
    /\ \E i \in 1..Len(EntriesOf(list)) :
          LET e == EntriesOf(list)[i]
          IN  /\ ToLowerCase(e.family) = ToLowerCase(resolved.family)
              /\ e.version # Null
              /\ compareBrowserSemvers(resolved.version, e.version,
                                       Overlay(DefaultOptions, opts))

\* the orders a list can be put in
Reorderings(list) ==
    {[i \in 1..Len(list) |-> list[f[i]]] : f \in Permutations(1..Len(list))}

\* C1: for a non-empty UA string and a query list returned by the resolver,
\* matchesUA returns true when some parsed entry matches and false in every
\* other case, whatever order the list is in.
C1_IffAnyEntry ==
    (MatchDone /\ ~Falsy(args.uaString) /\ args.resolver.outcome = "returned")
    => /\ ret.value.outcome
            = IF AnyEntryMatches(args.resolver.value,
                                 resolveUserAgent(args.ua), args.opts)
              THEN "true" ELSE "false"
       /\ \A l \in Reorderings(args.resolver.value) :
             matchesUA(args.uaString, args.ua, args.browsers, args.opts,
                       Return(l)).outcome = ret.value.outcome

\* C1 holds of every query list without a range that crosses a major version
C1_WithinMajor ==
    (/\ MatchDone /\ ~Falsy(args.uaString)
     /\ args.resolver.outcome = "returned"
     /\ \A i \in 1..Len(args.resolver.value) :
           ~EntryCrossesMajor(args.resolver.value[i]))
    => /\ ret.value.outcome
            = IF AnyEntryMatches(args.resolver.value,
                                 resolveUserAgent(args.ua), args.opts)
              THEN "true" ELSE "false"
       /\ \A l \in Reorderings(args.resolver.value) :
             matchesUA(args.uaString, args.ua, args.browsers, args.opts,
                       Return(l)).outcome = ret.value.outcome

\* and such a range is the only way for matchesUA not to end
MatchNeverReturnsOnlyAcrossMajor ==
    MatchDone =>
       (ret.value.outcome = "diverges")
       = (/\ ~Falsy(args.uaString)
          /\ args.resolver.outcome = "returned"
          /\ \E i \in 1..Len(args.resolver.value) :
                EntryCrossesMajor(args.resolver.value[i]))

\* C2: with an empty, null or undefined UA string matchesUA returns false
\* without calling the resolver, whatever the options are and also when the
\* resolver would fail.
C2_EmptyUA ==
    (MatchDone /\ args.uaString \in {<<>>, Null, Undefined})
    => ret.value.outcome = "false" /\ ~ret.value.resolverCalled

C2_Witness ==
    /\ MatchDone
    /\ args.uaString = <<>>
    /\ args.resolver = Throws
    /\ args.browsers # Undefined
    /\ ret.value.outcome = "false"

\* C3: with a non-empty UA string, a failure of the resolver ends matchesUA
\* in an error, which is neither false nor true, whether or not the UA string
\* resolves to a family and a version.
C3_ResolverFailure ==
    (MatchDone /\ args.uaString \notin {<<>>, Null, Undefined}
               /\ args.resolver = Throws)
    => /\ ret.value.outcome = "throws"
       /\ ret.value.outcome \notin {"true", "false"}

\* the resolver fails for a UA string that resolves to no family
C3_Witness ==
    /\ MatchDone
    /\ args.uaString \notin {<<>>, Null, Undefined}
    /\ args.resolver = Throws
    /\ resolveUserAgent(args.ua).family = Null
    /\ ret.value.outcome = "throws"

====
